---- MODULE Spec2Model ----
(***************************************************************************)
(* State machine of the BusView component (src/unnamed/part_000): the      *)
(* React state of the route -> direction -> stop cascade, the requests in  *)
(* flight, and one action per event handler or promise callback.  An       *)
(* action is a handler together with the effects React runs for the        *)
(* dependencies the handler changed, as React commits them in one batch.   *)
(***************************************************************************)
EXTENDS Integers, Sequences, FiniteSets, Bags, TLC

VARIABLES
    routes,              \* useState([])     line 54
    selectedRoute,       \* useState('')     line 55
    directions,          \* useState([])     line 56
    direction,           \* useState('')     line 57
    stops,               \* useState([])     line 58
    selectedStop,        \* useState('')     line 59
    predictions,         \* useState([])     line 60
    vehicles,            \* useState([])     line 61
    predictionAttempted, \* useState(false)  line 62
    userLocation,        \* useState(null)   line 63
    stopsLoaded,         \* useState(false)  line 64
    pending,             \* bag of axios requests whose promise has not settled
    routesPending,       \* the routes request of the mount effect is in flight
    geoPending,          \* getCurrentPosition has not called back yet
    events,              \* history: how many user events have been handled
    viewport,            \* the bounds last passed to fitBounds of the mounted map
    answered             \* history: the stops whose predictions request has settled

ui == <<routes, selectedRoute, directions, direction, stops, selectedStop,
        predictions, vehicles, predictionAttempted, userLocation, stopsLoaded>>
vars == <<ui, pending, routesPending, geoPending, events, viewport, answered>>

(***************************************************************************)
(* Bounds of the model.                                                    *)
(***************************************************************************)
\* A behaviour has at most this many user events (selections and clicks); the
\* callbacks of the requests they issue may arrive in any order between them.
MaxEvents == 4

\* The inputs of FitBounds on its own: at most MaxBuses buses, on a grid of
\* latitudes 0..MaxCoord and longitudes -MaxCoord..0.
MaxBuses == 2
MaxCoord == 2

(***************************************************************************)
(* What the backend serves.  Every record carries the key it was served    *)
(* for, as the CTA records do (rt, rtdir, stpid), so that the origin of a  *)
(* collection can be read off the collection.                              *)
(***************************************************************************)
RouteIds == {"r1", "r2"}
DirIds == {"N", "S"}

RouteList == << [rt |-> "r1"], [rt |-> "r2"] >>

DirsOf(rt) ==
    IF rt = "r1" THEN << [dir |-> "N"], [dir |-> "S"] >> ELSE << [dir |-> "N"] >>

\* Route r1 has two stops northbound and one southbound; route r2 has no stop
\* data.
StopsOf(rt, dir) ==
    CASE rt = "r1" /\ dir = "N" ->
             << [stpid |-> "s1N", rt |-> rt, dir |-> dir],
                [stpid |-> "s2N", rt |-> rt, dir |-> dir] >>
      [] rt = "r1" /\ dir # "N" -> << [stpid |-> "s1S", rt |-> rt, dir |-> dir] >>
      [] OTHER -> << >>

VehiclesOf(rt) ==
    << [vid |-> IF rt = "r1" THEN "v1" ELSE "v2", rt |-> rt,
        lat |-> IF rt = "r1" THEN 1 ELSE 2, lon |-> IF rt = "r1" THEN 3 ELSE 1] >>

PredsOf(rt, stop) == << [rt |-> rt, stpid |-> stop] >>

\* Coordinates are in units of 1e-4 degree.
FallbackLocation == [lat |-> 418781, lon |-> 0 - 876298]
DeviceLocation == [lat |-> 0, lon |-> 2]
Null == [null |-> TRUE]

\* A JSON value that is truthy and not an array (an object): a function whose
\* domain is not 1..n.
NonSeq == [i \in {0} |-> "object"]
IsArray(v) == v # NonSeq
\* v.length > 0 and v.length === 0; the length of an object is undefined, and
\* undefined is neither.
LengthPositive(v) == IsArray(v) /\ Len(v) > 0
LengthZero(v) == IsArray(v) /\ Len(v) = 0

(***************************************************************************)
(* Requests and responses.                                                 *)
(***************************************************************************)
\* A request as axios.get was called: its endpoint and query parameters.  dir
\* of a vehicles request and cur are history: the direction the effect that
\* issued it ran for, and whether no selection it was issued for has changed
\* since.
Req(kind, rt, dir, stop) ==
    [kind |-> kind, rt |-> rt, dir |-> dir, stop |-> stop, cur |-> TRUE]

\* What a request resolves to: the served sequence, an empty sequence, an
\* envelope without the field, a body without the envelope, a transport error.
PayloadOf(q) ==
    CASE q.kind = "routes" -> RouteList
      [] q.kind = "directions" -> DirsOf(q.rt)
      [] q.kind = "stops" -> StopsOf(q.rt, q.dir)
      [] q.kind = "vehicles" -> VehiclesOf(q.rt)
      [] OTHER -> PredsOf(q.rt, q.stop)

Responses(q) ==
    { [shape |-> "ok", field |-> PayloadOf(q)],
      [shape |-> "ok", field |-> << >>],
      [shape |-> "nofield", field |-> << >>],
      [shape |-> "noenvelope", field |-> << >>],
      [shape |-> "error", field |-> << >>] }

\* The promise rejects, or the .then callback throws reading a field of
\* undefined: either way the .catch callback runs and nothing of .then has.
Rejects(resp) == resp.shape \in {"error", "noenvelope"}

\* A response whose envelope holds, under the expected field, a truthy value
\* that is not an array.
Malformed == [shape |-> "nonseq", field |-> NonSeq]

\* res.data['bustime-response'].<field> || []
FieldOrEmpty(resp) == IF resp.shape \in {"ok", "nonseq"} THEN resp.field ELSE << >>

(***************************************************************************)
(* The React state as one record, and the handlers as functions on it.     *)
(***************************************************************************)
State ==
    [routes |-> routes, selectedRoute |-> selectedRoute, directions |-> directions,
     direction |-> direction, stops |-> stops, selectedStop |-> selectedStop,
     predictions |-> predictions, vehicles |-> vehicles,
     predictionAttempted |-> predictionAttempted, userLocation |-> userLocation,
     stopsLoaded |-> stopsLoaded]

\* The useState initial values, lines 54-64.
InitState ==
    [routes |-> << >>, selectedRoute |-> "", directions |-> << >>, direction |-> "",
     stops |-> << >>, selectedStop |-> "", predictions |-> << >>, vehicles |-> << >>,
     predictionAttempted |-> FALSE, userLocation |-> Null, stopsLoaded |-> FALSE]

\* The effect of lines 99-116 (deps [selectedRoute]): the request it issues.
DirectionsEffectReqs(s) ==
    IF s.selectedRoute # ""
    THEN SetToBag({Req("directions", s.selectedRoute, "", "")})
    ELSE EmptyBag

\* The effect of lines 118-140 (deps [selectedRoute, direction]): what it sets.
StopsEffect(s) ==
    IF s.selectedRoute # "" /\ s.direction # ""
    THEN [s EXCEPT !.stopsLoaded = FALSE, !.selectedStop = "",
                   !.predictions = << >>, !.predictionAttempted = FALSE]
    ELSE s

\* The effect of lines 118-140: the two requests it issues.
StopsEffectReqs(s) ==
    IF s.selectedRoute # "" /\ s.direction # ""
    THEN SetToBag({Req("stops", s.selectedRoute, s.direction, ""),
                   Req("vehicles", s.selectedRoute, s.direction, "")})
    ELSE EmptyBag

RouteChanged(old, new) == new.selectedRoute # old.selectedRoute
PairChanged(old, new) == RouteChanged(old, new) \/ new.direction # old.direction

\* React runs, after the commit of `new`, the effects whose dependencies differ
\* from the previous commit `old`.  The stops effect writes no dependency, so one
\* round of effects settles.
AfterEffects(old, new) == IF PairChanged(old, new) THEN StopsEffect(new) ELSE new

IssuedBy(old, new) ==
    (IF RouteChanged(old, new) THEN DirectionsEffectReqs(new) ELSE EmptyBag)
        (+) (IF PairChanged(old, new) THEN StopsEffectReqs(new) ELSE EmptyBag)

\* select onChange, line 179
SetSelectedRoute(s, r) == [s EXCEPT !.selectedRoute = r]

\* select onChange, line 193
SetDirection(s, d) == [s EXCEPT !.direction = d]

\* select onChange, line 208
SetSelectedStop(s, id) == [s EXCEPT !.selectedStop = id]

\* getPredictions, lines 142-151: the request it issues
GetPredictionsReqs(s) ==
    IF s.selectedStop # ""
    THEN SetToBag({Req("predictions", s.selectedRoute, "", s.selectedStop)})
    ELSE EmptyBag

\* resetApp as it would be with the setUserLocation(null) of line 162 left out.
ResetAppKeepsLocation(s) ==
    [s EXCEPT !.selectedRoute = "", !.directions = << >>, !.direction = "",
              !.stops = << >>, !.selectedStop = "", !.predictions = << >>,
              !.vehicles = << >>, !.predictionAttempted = FALSE,
              !.stopsLoaded = FALSE]

\* resetApp as it would be with the setVehicles([]) of line 160 left out.
ResetAppKeepsVehicles(s) ==
    [s EXCEPT !.selectedRoute = "", !.directions = << >>, !.direction = "",
              !.stops = << >>, !.selectedStop = "", !.predictions = << >>,
              !.predictionAttempted = FALSE,
              !.userLocation = Null, !.stopsLoaded = FALSE]

\* resetApp, lines 153-164
ResetApp(s) ==
    [s EXCEPT !.selectedRoute = "", !.directions = << >>, !.direction = "",
              !.stops = << >>, !.selectedStop = "", !.predictions = << >>,
              !.vehicles = << >>, !.predictionAttempted = FALSE,
              !.userLocation = Null, !.stopsLoaded = FALSE]

\* routes request, lines 85-96: Array.isArray(data) ? data : [], and [] on error
RoutesSettled(s, resp) ==
    [s EXCEPT !.routes = IF resp.shape = "ok" THEN resp.field ELSE << >>]

\* directions request, .then of lines 102-110
DirectionsThen(s, resp) ==
    [s EXCEPT !.directions = FieldOrEmpty(resp), !.direction = "", !.stops = << >>,
              !.selectedStop = "", !.predictions = << >>,
              !.predictionAttempted = FALSE, !.vehicles = << >>]

\* directions request, .catch of lines 111-114
DirectionsCatch(s) == [s EXCEPT !.directions = << >>]

DirectionsSettled(s, resp) ==
    IF Rejects(resp) THEN DirectionsCatch(s) ELSE DirectionsThen(s, resp)

\* stops request, .then of lines 123-126
StopsThen(s, resp) == [s EXCEPT !.stops = FieldOrEmpty(resp), !.stopsLoaded = TRUE]

\* The .catch of the stops request as it would be with the setStopsLoaded(true)
\* of line 129 left out.
StopsCatchKeepsLoading(s) == [s EXCEPT !.stops = << >>]

\* stops request, .catch of lines 127-130
StopsCatch(s) == [s EXCEPT !.stops = << >>, !.stopsLoaded = TRUE]

StopsSettled(s, resp) == IF Rejects(resp) THEN StopsCatch(s) ELSE StopsThen(s, resp)

\* vehicles request, .then of line 133
VehiclesThen(s, resp) == [s EXCEPT !.vehicles = FieldOrEmpty(resp)]

\* The .catch of the vehicles request as it would be if it cleared the stops too.
VehiclesCatchClearsStops(s) == [s EXCEPT !.vehicles = << >>, !.stops = << >>]

\* vehicles request, .catch of line 134
VehiclesCatch(s) == [s EXCEPT !.vehicles = << >>]

VehiclesSettled(s, resp) ==
    IF Rejects(resp) THEN VehiclesCatch(s) ELSE VehiclesThen(s, resp)

\* predictions request, .then of lines 145-148
PredictionsThen(s, resp) ==
    [s EXCEPT !.predictions = FieldOrEmpty(resp), !.predictionAttempted = TRUE]

\* The .catch of the predictions request as it would be if it recorded the
\* attempt, the way the .catch of the stops request records the load.
PredictionsCatchSetsAttempted(s) == [s EXCEPT !.predictionAttempted = TRUE]

\* predictions request, .catch of line 149: logs and sets nothing
PredictionsCatch(s) == s

PredictionsSettled(s, resp) ==
    IF Rejects(resp) THEN PredictionsCatch(s) ELSE PredictionsThen(s, resp)

\* getCurrentPosition success callback, lines 70-75
GeoSuccess(s, pos) == [s EXCEPT !.userLocation = [lat |-> pos.lat, lon |-> pos.lon]]

\* getCurrentPosition error callback, lines 76-79
GeoError(s) == [s EXCEPT !.userLocation = FallbackLocation]

(***************************************************************************)
(* The map, lines 36-51 and 250-284.  Coordinates are held as the numbers   *)
(* parseFloat reads from them.                                              *)
(***************************************************************************)
Min(a, b) == IF a <= b THEN a ELSE b
Max(a, b) == IF a >= b THEN a ELSE b

\* L.latLngBounds of a non-empty list of points: the box of the first point,
\* extended by each further point in turn.
RECURSIVE LatLngBounds(_)
LatLngBounds(points) ==
    IF Len(points) = 1
    THEN [south |-> points[1].lat, west |-> points[1].lon,
          north |-> points[1].lat, east |-> points[1].lon]
    ELSE LET box == LatLngBounds(SubSeq(points, 1, Len(points) - 1))
             p == points[Len(points)]
         IN  [south |-> Min(box.south, p.lat), west |-> Min(box.west, p.lon),
              north |-> Max(box.north, p.lat), east |-> Max(box.east, p.lon)]

\* No fitBounds call: the map keeps the view it has.
NoFit == [fit |-> FALSE]

\* The box over the buses alone, as the effect would build it without the
\* rider's position of line 44.
FitBoundsWithoutUser(buses, loc) ==
    IF LengthZero(buses) \/ loc = Null
    THEN NoFit
    ELSE LatLngBounds([i \in 1..Len(buses) |->
                           [lat |-> buses[i].lat, lon |-> buses[i].lon]])

\* The effect of FitBounds, lines 39-48: the bounds it passes to map.fitBounds,
\* or NoFit when it returns early.
FitBounds(buses, loc) ==
    IF LengthZero(buses) \/ loc = Null
    THEN NoFit
    ELSE LatLngBounds([i \in 1..Len(buses) |->
                           [lat |-> buses[i].lat, lon |-> buses[i].lon]]
                      \o << [lat |-> loc.lat, lon |-> loc.lon] >>)

\* The view after the commit that took old to new.  The MapContainer, and with
\* it FitBounds, is mounted while vehicles.length > 0 (line 250); the effect
\* runs when FitBounds mounts and when buses or userLocation change.
ViewAfter(view, old, new) ==
    IF ~LengthPositive(new.vehicles) THEN NoFit
    ELSE IF /\ LengthPositive(old.vehicles)
            /\ new.vehicles = old.vehicles
            /\ new.userLocation = old.userLocation
         THEN view
         ELSE LET fit == FitBounds(new.vehicles, new.userLocation)
              IN  IF fit # NoFit THEN fit
                  ELSE IF LengthPositive(old.vehicles) THEN view ELSE NoFit

(***************************************************************************)
(* Requests in flight.                                                     *)
(***************************************************************************)
\* The kinds of request issued for a selection that differs between old and new.
StaleKinds(old, new) ==
    (IF RouteChanged(old, new)
     THEN {"directions", "stops", "vehicles", "predictions"} ELSE {})
    \cup (IF PairChanged(old, new) THEN {"stops", "vehicles"} ELSE {})
    \cup (IF new.selectedStop # old.selectedStop THEN {"predictions"} ELSE {})

Mark(q, kinds) == IF q.kind \in kinds THEN [q EXCEPT !.cur = FALSE] ELSE q

\* History only: the requests of `kinds` in bag B are no longer current.  The
\* requests themselves stay in flight: nothing in the component aborts one.
Supersede(B, kinds) ==
    LET dom == {Mark(q, kinds) : q \in DOMAIN B}
        copies(x, q) == IF q \in DOMAIN B /\ Mark(q, kinds) = x THEN B[q] ELSE 0
    IN  [x \in dom |-> copies(x, [x EXCEPT !.cur = TRUE])
                        + copies(x, [x EXCEPT !.cur = FALSE])]

\* One commit: the handler took the state from old to new, React ran the effects,
\* and the requests of `issued` and of the effects went out.
Commit(old, new, settled, issued) ==
    LET final == AfterEffects(old, new)
    IN  /\ routes' = final.routes
        /\ selectedRoute' = final.selectedRoute
        /\ directions' = final.directions
        /\ direction' = final.direction
        /\ stops' = final.stops
        /\ selectedStop' = final.selectedStop
        /\ predictions' = final.predictions
        /\ vehicles' = final.vehicles
        /\ predictionAttempted' = final.predictionAttempted
        /\ userLocation' = final.userLocation
        /\ stopsLoaded' = final.stopsLoaded
        /\ pending' = Supersede(pending (-) settled, StaleKinds(old, final))
                          (+) IssuedBy(old, new) (+) issued
        /\ viewport' = ViewAfter(viewport, old, final)
        /\ answered' = answered \cup {q.stop : q \in {x \in DOMAIN settled :
                                                        x.kind = "predictions"}}

(***************************************************************************)
(* What is rendered, lines 170-287.                                        *)
(***************************************************************************)
\* A controlled select whose value is none of its options shows its first
\* option, the empty one; onChange fires only for an option other than the one
\* shown.
Shown(value, options) == IF value \in options THEN value ELSE ""

RouteOptions == {""} \cup {routes[i].rt : i \in 1..Len(routes)}
DirectionSelectShown == LengthPositive(directions)
DirectionOptions ==
    {""} \cup (IF DirectionSelectShown
               THEN {directions[i].dir : i \in 1..Len(directions)} ELSE {})
StopSelectShown == direction # "" /\ LengthPositive(stops)
StopOptions ==
    {""} \cup (IF LengthPositive(stops)
               THEN {stops[i].stpid : i \in 1..Len(stops)} ELSE {})
NoStopDataShown == direction # "" /\ LengthZero(stops) /\ stopsLoaded
MapShown == LengthPositive(vehicles)

(***************************************************************************)
(* Actions.                                                                *)
(***************************************************************************)
\* A select's onChange or a button's onClick is handled.
UserEvent ==
    /\ events < MaxEvents
    /\ events' = events + 1
    /\ UNCHANGED <<routesPending, geoPending>>

Init ==
    /\ routes = InitState.routes
    /\ selectedRoute = InitState.selectedRoute
    /\ directions = InitState.directions
    /\ direction = InitState.direction
    /\ stops = InitState.stops
    /\ selectedStop = InitState.selectedStop
    /\ predictions = InitState.predictions
    /\ vehicles = InitState.vehicles
    /\ predictionAttempted = InitState.predictionAttempted
    /\ userLocation = InitState.userLocation
    /\ stopsLoaded = InitState.stopsLoaded
    /\ pending = EmptyBag
    /\ routesPending = TRUE
    /\ geoPending = TRUE
    /\ events = 0
    /\ viewport = NoFit
    /\ answered = {}

\* The rider picks option r of the route select.
SelectRouteTo(r) ==
    /\ r \in RouteOptions
    /\ r # Shown(selectedRoute, RouteOptions)
    /\ UserEvent
    /\ Commit(State, SetSelectedRoute(State, r), EmptyBag, EmptyBag)

SelectRoute == \E r \in RouteOptions : SelectRouteTo(r)

\* The rider picks option d of the direction select.
SelectDirectionTo(d) ==
    /\ DirectionSelectShown
    /\ d \in DirectionOptions
    /\ d # Shown(direction, DirectionOptions)
    /\ UserEvent
    /\ Commit(State, SetDirection(State, d), EmptyBag, EmptyBag)

SelectDirection == \E d \in DirectionOptions : SelectDirectionTo(d)

\* The rider picks option id of the stop select.
SelectStopTo(id) ==
    /\ StopSelectShown
    /\ id \in StopOptions
    /\ id # Shown(selectedStop, StopOptions)
    /\ UserEvent
    /\ Commit(State, SetSelectedStop(State, id), EmptyBag, EmptyBag)

SelectStop == \E id \in StopOptions : SelectStopTo(id)

\* The Get Predictions button is rendered next to the stop select.
ClickGetPredictions ==
    /\ StopSelectShown
    /\ UserEvent
    /\ Commit(State, State, EmptyBag, GetPredictionsReqs(State))

\* The Reset button is always rendered.
ClickReset ==
    /\ UserEvent
    /\ Commit(State, ResetApp(State), EmptyBag, EmptyBag)

\* The routes request of the mount effect (lines 83-97) settles.
RoutesArrive ==
    \E resp \in Responses([kind |-> "routes"]) :
        /\ routesPending
        /\ routesPending' = FALSE
        /\ Commit(State, RoutesSettled(State, resp), EmptyBag, EmptyBag)
        /\ UNCHANGED <<geoPending, events>>

RoutesArriveWith(resp) ==
    /\ routesPending
    /\ routesPending' = FALSE
    /\ UNCHANGED <<geoPending, events>>
    /\ Commit(State, RoutesSettled(State, resp), EmptyBag, EmptyBag)

\* The geolocation request of the mount effect (lines 68-81) calls back.
GeoArrives ==
    /\ geoPending
    /\ geoPending' = FALSE
    /\ \/ Commit(State, GeoSuccess(State, DeviceLocation), EmptyBag, EmptyBag)
       \/ Commit(State, GeoError(State), EmptyBag, EmptyBag)
    /\ UNCHANGED <<routesPending, events>>

\* Request q, in flight, settles and its callback takes the state to `new`.
Settle(q, new) ==
    /\ q \in BagToSet(pending)
    /\ UNCHANGED <<routesPending, geoPending, events>>
    /\ Commit(State, new, SetToBag({q}), EmptyBag)

DirectionsArriveWith(q, resp) ==
    /\ q.kind = "directions"
    /\ Settle(q, DirectionsSettled(State, resp))

DirectionsArrive ==
    \E q \in BagToSet(pending) :
        /\ q.kind = "directions"
        /\ \E new \in {DirectionsSettled(State, resp) : resp \in Responses(q)} : Settle(q, new)

StopsArriveWith(q, resp) ==
    /\ q.kind = "stops"
    /\ Settle(q, StopsSettled(State, resp))

StopsArrive ==
    \E q \in BagToSet(pending) :
        /\ q.kind = "stops"
        /\ \E new \in {StopsSettled(State, resp) : resp \in Responses(q)} : Settle(q, new)

VehiclesArriveWith(q, resp) ==
    /\ q.kind = "vehicles"
    /\ Settle(q, VehiclesSettled(State, resp))

VehiclesArrive ==
    \E q \in BagToSet(pending) :
        /\ q.kind = "vehicles"
        /\ \E new \in {VehiclesSettled(State, resp) : resp \in Responses(q)} : Settle(q, new)

PredictionsArriveWith(q, resp) ==
    /\ q.kind = "predictions"
    /\ Settle(q, PredictionsSettled(State, resp))

PredictionsArrive ==
    \E q \in BagToSet(pending) :
        /\ q.kind = "predictions"
        /\ \E new \in {PredictionsSettled(State, resp) : resp \in Responses(q)} : Settle(q, new)

Next ==
    \/ SelectRoute
    \/ SelectDirection
    \/ SelectStop
    \/ ClickGetPredictions
    \/ ClickReset
    \/ RoutesArrive
    \/ GeoArrives
    \/ DirectionsArrive
    \/ StopsArrive
    \/ VehiclesArrive
    \/ PredictionsArrive

Spec == Init /\ [][Next]_vars

(***************************************************************************)
(* The component with a backend that also answers the four collection      *)
(* requests with a field that is not an array.                             *)
(***************************************************************************)
RoutesArriveMalformed == RoutesArriveWith(Malformed)

DirectionsArriveMalformed ==
    \E q \in BagToSet(pending) : DirectionsArriveWith(q, Malformed)

StopsArriveMalformed ==
    \E q \in BagToSet(pending) : StopsArriveWith(q, Malformed)

VehiclesArriveMalformed ==
    \E q \in BagToSet(pending) : VehiclesArriveWith(q, Malformed)

NextShapes ==
    \/ Next
    \/ RoutesArriveMalformed
    \/ DirectionsArriveMalformed
    \/ StopsArriveMalformed
    \/ VehiclesArriveMalformed

SpecShapes == Init /\ [][NextShapes]_vars

(***************************************************************************)
(* The component from the state in which a route and a direction have been *)
(* chosen and everything asked for has arrived: routes, the directions of  *)
(* r1, the stops and the vehicles of (r1, N), and the rider's position.    *)
(* Spec reaches this state with two user events; events counts the user    *)
(* events handled after it.                                                *)
(***************************************************************************)
LoadedState ==
    [InitState EXCEPT !.routes = RouteList, !.selectedRoute = "r1",
                      !.directions = DirsOf("r1"), !.direction = "N",
                      !.stops = StopsOf("r1", "N"), !.stopsLoaded = TRUE,
                      !.vehicles = VehiclesOf("r1"),
                      !.userLocation = DeviceLocation]

InitLoaded ==
    /\ routes = LoadedState.routes
    /\ selectedRoute = LoadedState.selectedRoute
    /\ directions = LoadedState.directions
    /\ direction = LoadedState.direction
    /\ stops = LoadedState.stops
    /\ selectedStop = LoadedState.selectedStop
    /\ predictions = LoadedState.predictions
    /\ vehicles = LoadedState.vehicles
    /\ predictionAttempted = LoadedState.predictionAttempted
    /\ userLocation = LoadedState.userLocation
    /\ stopsLoaded = LoadedState.stopsLoaded
    /\ pending = EmptyBag
    /\ routesPending = FALSE
    /\ geoPending = FALSE
    /\ events = 0
    /\ viewport = FitBounds(LoadedState.vehicles, LoadedState.userLocation)
    /\ answered = {}

\* The mount requests have been answered: RoutesArrive and GeoArrives are
\* disabled for good.
NextLoaded ==
    \/ SelectRoute
    \/ SelectDirection
    \/ SelectStop
    \/ ClickGetPredictions
    \/ ClickReset
    \/ DirectionsArrive
    \/ StopsArrive
    \/ VehiclesArrive
    \/ PredictionsArrive

SpecLoaded == InitLoaded /\ [][NextLoaded]_vars

(***************************************************************************)
(* FitBounds on its own: the effect of lines 39-48 run on a map with any   *)
(* earlier view, for any list of buses and any position of the rider.      *)
(***************************************************************************)
Positions == [lat : 0..MaxCoord, lon : (0 - MaxCoord)..0]

BusLists ==
    UNION {[1..n -> [vid : {"v1"}, rt : {"r1"}, lat : 0..MaxCoord,
                     lon : (0 - MaxCoord)..0]] : n \in 0..MaxBuses}

\* The view a map has after an earlier fitBounds call.
PriorView == LatLngBounds(<< DeviceLocation >>)

InitFit ==
    /\ routes = LoadedState.routes
    /\ selectedRoute = LoadedState.selectedRoute
    /\ directions = LoadedState.directions
    /\ direction = LoadedState.direction
    /\ stops = LoadedState.stops
    /\ selectedStop = LoadedState.selectedStop
    /\ predictions = LoadedState.predictions
    /\ vehicles \in BusLists
    /\ predictionAttempted = LoadedState.predictionAttempted
    /\ userLocation \in Positions \cup {Null}
    /\ stopsLoaded = LoadedState.stopsLoaded
    /\ pending = EmptyBag
    /\ routesPending = FALSE
    /\ geoPending = (userLocation = Null)
    /\ events = 0
    /\ viewport \in {NoFit, PriorView}
    /\ answered = {}

\* The effect body runs once for the props (vehicles, userLocation).
FitBoundsRuns ==
    /\ viewport' = LET fit == FitBounds(vehicles, userLocation)
                   IN  IF fit = NoFit THEN viewport ELSE fit
    /\ UNCHANGED <<ui, pending, routesPending, geoPending, events, answered>>

NextFit == FitBoundsRuns

SpecFit == InitFit /\ [][NextFit]_vars

(***************************************************************************)
(* Claims.                                                                 *)
(***************************************************************************)
InFlight(kind) == {q \in BagToSet(pending) : q.kind = kind}

\* C1: a directions result of a superseded setRoute call (its request is no
\* longer current, and a later setRoute call selected the route now shown)
\* leaves directions unchanged when it arrives.
C1_SupersededDirectionsDiscarded ==
    [][\A q \in InFlight("directions") : \A resp \in Responses(q) :
          (DirectionsArriveWith(q, resp) /\ ~q.cur /\ selectedRoute # "")
              => directions' = directions]_vars

\* C2: right after setRoute(r), direction and stop are empty, stops, predictions
\* and vehicles are empty sequences and the prediction-attempted flag is false.
C2_SetRouteClears ==
    [][\A r \in RouteIds :
          SelectRouteTo(r)
              => /\ direction' = "" /\ selectedStop' = ""
                 /\ stops' = << >> /\ predictions' = << >> /\ vehicles' = << >>
                 /\ ~predictionAttempted']_vars

\* C3: a non-empty stop implies a non-empty direction, and a non-empty direction
\* implies a non-empty route.
C3_SelectionChain ==
    /\ selectedStop # "" => direction # ""
    /\ direction # "" => selectedRoute # ""

\* C4: a stops or vehicles result changes stops, vehicles and the stops-loaded
\* flag only if the route and direction its request was issued for are the
\* current route and direction.
C4_StaleStopsVehiclesDiscarded ==
    [][\A q \in InFlight("stops") \cup InFlight("vehicles") : \A resp \in Responses(q) :
          ((StopsArriveWith(q, resp) \/ VehiclesArriveWith(q, resp))
                /\ ~(q.rt = selectedRoute /\ q.dir = direction))
              => /\ stops' = stops /\ vehicles' = vehicles
                 /\ stopsLoaded' = stopsLoaded]_vars

\* C5: every vehicle in vehicles (the markers and the set the viewport is fitted
\* to) was fetched for the currently selected route.
C5_VehiclesOfCurrentRoute ==
    \A i \in 1..Len(vehicles) : vehicles[i].rt = selectedRoute

\* C6: right after setDirection(d) with a non-empty route and a non-empty d, stop
\* is empty, stops, predictions and vehicles are empty sequences and the
\* prediction-attempted flag is false.
C6_SetDirectionClears ==
    [][\A d \in DirIds :
          (SelectDirectionTo(d) /\ selectedRoute # "")
              => /\ selectedStop' = ""
                 /\ stops' = << >> /\ predictions' = << >> /\ vehicles' = << >>
                 /\ ~predictionAttempted']_vars

\* C7: while the stops request issued for the current route and direction is in
\* flight, stops is empty and the stops-loaded flag is false.
C7_NothingShownWhileLoading ==
    (\E q \in InFlight("stops") : q.cur /\ q.rt = selectedRoute /\ q.dir = direction)
        => stops = << >> /\ ~stopsLoaded

\* C8: when the stops request issued for the current route and direction
\* settles with an empty sequence, without the field or the envelope, or with
\* a transport error, then stops is empty, the stops-loaded flag is true and
\* the no-stop-data message is what is rendered.
C8_EmptyOrFailedStops ==
    [][\A q \in InFlight("stops") : \A resp \in Responses(q) :
          (/\ q.rt = selectedRoute /\ q.dir = direction
           /\ ~(resp.shape = "ok" /\ resp.field # << >>)
           /\ StopsArriveWith(q, resp))
              => stops' = << >> /\ stopsLoaded' /\ NoStopDataShown']_vars

\* C8 witness: after setRoute and setDirection only, the one stops request
\* issued has settled and left no stops.
C8_Witness ==
    /\ events = 2 /\ selectedRoute # "" /\ direction # ""
    /\ InFlight("stops") = {}
    /\ NoStopDataShown

\* A callback applied to a state, with the effects React runs after it.
AfterStops(s, resp) == AfterEffects(s, StopsSettled(s, resp))
AfterVehicles(s, resp) == AfterEffects(s, VehiclesSettled(s, resp))

\* C9: a stops result leaves vehicles unchanged (no step that changes vehicles
\* is the arrival of a stops result), a vehicles result leaves stops and the
\* stops-loaded flag unchanged, and for the two requests issued by one run of
\* the stops/vehicles effect the state after both results is the same in
\* either order of arrival: when the stops result arrives first, a vehicles
\* result applied to the state reached gives what the stops result gives when
\* applied after the vehicles result.
C9_StopsVehiclesIndependent ==
    [][/\ vehicles' # vehicles => ~StopsArrive
       /\ (stops' # stops \/ stopsLoaded' # stopsLoaded) => ~VehiclesArrive
       /\ \A qv \in InFlight("vehicles") : \A qs \in InFlight("stops") :
              (qs.cur /\ qv.cur) =>
                  \A rs \in Responses(qs) :
                      StopsArriveWith(qs, rs) =>
                          \A rv \in Responses(qv) :
                              AfterVehicles(State', rv)
                                  = AfterStops(AfterVehicles(State, rv), rs)]_vars

\* C9 witness: after setRoute and setDirection only, both requests of the one
\* setDirection have settled, the stops request with data and the vehicles
\* request without.
C9_Witness ==
    /\ events = 2 /\ selectedRoute # "" /\ direction # ""
    /\ InFlight("stops") = {} /\ InFlight("vehicles") = {}
    /\ stopsLoaded /\ Len(stops) > 0 /\ Len(vehicles) = 0

\* C10: the one transition of reset() ends with route, direction and stop
\* empty, directions, stops, predictions and vehicles empty sequences,
\* userLocation unset and both flags false: their initial-mount values.
C10_ResetRestoresMount ==
    [][ClickReset
          => /\ selectedRoute' = InitState.selectedRoute
             /\ direction' = InitState.direction
             /\ selectedStop' = InitState.selectedStop
             /\ directions' = InitState.directions
             /\ stops' = InitState.stops
             /\ predictions' = InitState.predictions
             /\ vehicles' = InitState.vehicles
             /\ userLocation' = InitState.userLocation
             /\ stopsLoaded' = InitState.stopsLoaded
             /\ predictionAttempted' = InitState.predictionAttempted]_vars

\* C10 witness: reset has run after geolocation answered and with requests
\* still in flight: the location is unset again and every selection is empty.
C10_Witness ==
    /\ ~geoPending /\ userLocation = Null
    /\ pending # EmptyBag
    /\ State = [InitState EXCEPT !.routes = RouteList]

\* C11: the completion of a directions fetch, success or failure, changes
\* only directions: the direction, the stop, the stops, the predictions, the
\* vehicles and the prediction-attempted flag are what they were before it.
C11_DirectionsCompletionFrame ==
    [][\A q \in InFlight("directions") : \A resp \in Responses(q) :
          DirectionsArriveWith(q, resp)
              => /\ direction' = direction
                 /\ selectedStop' = selectedStop
                 /\ stops' = stops
                 /\ predictions' = predictions
                 /\ vehicles' = vehicles
                 /\ predictionAttempted' = predictionAttempted]_vars

\* C12: a change of route issues a directions fetch and neither a stops nor
\* a vehicles fetch, whatever direction was selected before it: after the
\* step every stops or vehicles request in flight is a superseded one.
C12_SetRouteIssuesOnlyDirections ==
    [][\A r \in RouteIds : SelectRouteTo(r)
          => /\ \E q \in DOMAIN pending' : q.kind = "directions" /\ q.cur
             /\ \A q \in DOMAIN pending' :
                    q.kind \in {"stops", "vehicles"} => ~q.cur]_vars

\* How many requests of a kind bag B holds.
CountKind(B, kind) ==
    LET D == {q \in DOMAIN B : q.kind = kind}
    IN  IF D = {} THEN 0 ELSE BagCardinality([q \in D |-> B[q]])

\* C13: a prediction request goes out only on a Get Predictions click, and only
\* when both the selected route and the selected stop are non-empty; a click
\* with no stop selected issues nothing and leaves the state as it was.
C13_PredictionFetchGuard ==
    [][/\ CountKind(pending', "predictions") > CountKind(pending, "predictions")
            => ClickGetPredictions /\ selectedRoute # "" /\ selectedStop # ""
       /\ (ClickGetPredictions /\ selectedStop = "")
            => pending' = pending /\ State' = State]_vars

\* C14: when a prediction fetch succeeds, the predictions become its result
\* (the empty sequence when the envelope has no prd field) and the
\* prediction-attempted flag becomes true; when it fails (a transport error,
\* or a body without the envelope, on which the callback throws), the
\* predictions and the flag are left exactly as they were.
C14_PredictionsCompletion ==
    [][\A q \in InFlight("predictions") : \A resp \in Responses(q) :
          PredictionsArriveWith(q, resp)
              => /\ resp.shape = "ok"
                       => predictions' = resp.field /\ predictionAttempted'
                 /\ resp.shape = "nofield"
                       => predictions' = << >> /\ predictionAttempted'
                 /\ resp.shape \in {"error", "noenvelope"}
                       => /\ predictions' = predictions
                          /\ predictionAttempted' = predictionAttempted]_vars

\* C14 witness: the prediction fetch for the selected stop has succeeded with
\* data and nothing else is in flight for predictions.
C14_Witness ==
    /\ selectedStop # ""
    /\ predictions = PredsOf(selectedRoute, selectedStop)
    /\ predictionAttempted
    /\ InFlight("predictions") = {}

\* C15: in every reachable state with a stop selected, the prediction-attempted
\* flag is true only if a prediction fetch issued for that stop has completed;
\* neither the selection of another stop nor the late completion of a fetch
\* issued for an earlier stop leaves the flag reporting an attempt for the
\* stop now selected.
C15_AttemptedForCurrentStop ==
    (predictionAttempted /\ selectedStop # "") => selectedStop \in answered

\* The responses of a failed or ill-shaped fetch: a transport error, a body
\* without the envelope, an envelope without the field, a field that is not a
\* sequence.
IllShaped ==
    { [shape |-> "error", field |-> << >>],
      [shape |-> "noenvelope", field |-> << >>],
      [shape |-> "nofield", field |-> << >>],
      Malformed }

\* C16: when the routes, directions, stops or vehicles fetch ends in a
\* transport error or in a response that lacks the expected shape, the
\* collection it feeds is the empty sequence afterwards, never a value that is
\* not a sequence.
C16_IllShapedGivesEmpty ==
    [][\A resp \in IllShaped :
          /\ RoutesArriveWith(resp) => routes' = << >>
          /\ \A q \in BagToSet(pending) :
                /\ DirectionsArriveWith(q, resp) => directions' = << >>
                /\ StopsArriveWith(q, resp) => stops' = << >>
                /\ VehiclesArriveWith(q, resp) => vehicles' = << >>]_vars

\* C17: FitBounds asks for no change of view when the list of vehicles is
\* empty or the rider's position is unset; otherwise it asks for the box
\* whose south and north are the least and greatest latitude, and whose west
\* and east are the least and greatest longitude, among the vehicles' positions
\* and the rider's position.
C17_FitIsBoundingBox ==
    [][FitBoundsRuns =>
          IF vehicles = << >> \/ userLocation = Null
          THEN viewport' = viewport
          ELSE LET lats == {vehicles[i].lat : i \in 1..Len(vehicles)}
                               \cup {userLocation.lat}
                   lons == {vehicles[i].lon : i \in 1..Len(vehicles)}
                               \cup {userLocation.lon}
               IN  /\ viewport'.south \in lats /\ \A x \in lats : viewport'.south <= x
                   /\ viewport'.north \in lats /\ \A x \in lats : viewport'.north >= x
                   /\ viewport'.west \in lons /\ \A x \in lons : viewport'.west <= x
                   /\ viewport'.east \in lons /\ \A x \in lons : viewport'.east >= x]_vars

\* C17 witness: the effect has run for two buses and a rider south and east
\* of both, and the view reaches from the rider to the farthest bus.
C17_Witness ==
    /\ Len(vehicles) = 2 /\ userLocation # Null
    /\ userLocation.lat < vehicles[1].lat /\ vehicles[1].lat < vehicles[2].lat
    /\ userLocation.lon > vehicles[1].lon /\ vehicles[1].lon > vehicles[2].lon
    /\ viewport = [south |-> userLocation.lat, west |-> vehicles[2].lon,
                   north |-> vehicles[2].lat, east |-> userLocation.lon]

\* C18: geolocation is requested once, at mount, and never again; its answer
\* sets the rider's location to the reported coordinate or to the fallback;
\* reset clears the location and requests nothing, so once reset has run
\* after the answer the location stays unset in every later state.
C18_GeolocationOnce ==
    [][/\ geoPending' => geoPending
       /\ userLocation' \notin {DeviceLocation, FallbackLocation} => ~GeoArrives
       /\ (userLocation' # Null \/ geoPending' # geoPending) => ~ClickReset
       /\ (~geoPending /\ userLocation = Null) => userLocation' = Null]_vars

\* C18 witness: reset has run after the geolocation answer and the rider has
\* selected a route again; the location is still unset.
C18_Witness ==
    /\ ~geoPending /\ userLocation = Null
    /\ selectedRoute # "" /\ events >= 2

\* The state reset leaves once geolocation has been answered: every selection
\* and collection but routes at its mount value and the location unset.
AtReset ==
    /\ ~geoPending /\ userLocation = Null
    /\ State = [InitState EXCEPT !.routes = routes]

\* C19: after reset, while the rider makes no new selection, the completion
\* of a directions, stops, vehicles or predictions fetch still in flight is
\* discarded: it repopulates nothing and sets no flag.
C19_ResetDiscardsInFlight ==
    [][(AtReset /\ (DirectionsArrive \/ StopsArrive \/ VehiclesArrive
                       \/ PredictionsArrive))
           => State' = State]_vars

\* C20: in every reachable state the predictions, if any, are the result of a
\* prediction fetch issued for the route and the stop now selected: no stop
\* change, route or direction change, or late completion leaves the
\* predictions of another stop displayed.
C20_PredictionsOfCurrentStop ==
    \A i \in 1..Len(predictions) :
        /\ predictions[i].rt = selectedRoute
        /\ predictions[i].stpid = selectedStop

====
